---- MODULE Spec2Model ----
(***************************************************************************)
(* goosniffer: the clipboard watcher (internal/clipboardwatcher) and the   *)
(* moon-scan parser (internal/moonparse).                                  *)
(*                                                                         *)
(* Spec      : the watcher.  Watch calls, the message queue of the thread  *)
(*             that runs the message loop, wndProc and readClipboardText   *)
(*             stepped at every call into the OS.  The results of the OS   *)
(*             calls and the messages posted to the queue are inputs.      *)
(* SpecParse : ParseMoons, one loop iteration per step, on texts built     *)
(*             from a pool of lines.                                       *)
(* SpecCalls : ParseMoons called repeatedly by a caller that keeps a       *)
(*             returned table.                                             *)
(* SpecUpload: the handler of either main function, from the detection     *)
(*             gate to the upload, under any setting of the options.       *)
(***************************************************************************)
EXTENDS Integers, Sequences, FiniteSets, TLC

(* ------------------------------ bounds -------------------------------- *)
\* Watch calls made by the process.
MaxCalls == 2
\* Messages posted to the loop thread's queue.
MaxMsgs == 3

(* ------------------------- program constants -------------------------- *)
WM_DESTROY == 2
WM_CLIPBOARDUPDATE == 797
maxAttempts == 5

\* A message the window procedure has no case for.
WM_OTHER == WM_DESTROY + 1

NilHandler == "nil"
Handlers == {"f", "g"}

\* err values: NoErr is Go's nil error.
NoErr == "nil"

(***************************************************************************)
(* Clipboard payloads: the UTF-16 code units found at the locked pointer   *)
(* (terminator and whatever follows it included) and the text a correct    *)
(* decode gives for them, as a sequence of code points.                    *)
(***************************************************************************)
Payloads ==
  << [units |-> <<72, 105, 0>>,               text |-> <<72, 105>>],
     [units |-> <<55357, 56832, 0, 66, 0>>,   text |-> <<128512>>],
     [units |-> <<56832, 65, 0>>,             text |-> <<65533, 65>>] >>

\* The handles GetClipboardData can return: 0 is null, i > 0 holds Payloads[i].
Handles == 0..Len(Payloads)

VARIABLES
  clipboardHandler, \* the package-level handler variable
  classRegistered,  \* the window class name is registered in this process
  watchCalls,       \* number of Watch calls made so far
  loop,             \* the Watch call that is in its message loop
  ret,              \* the most recent return of a Watch call
  queue,            \* posted messages of the loop thread, oldest first
  posted,           \* number of messages posted so far
  quitPosted,       \* PostQuitMessage has been called
  pc,               \* position of the loop thread
  x,                \* frame of the wndProc/readClipboardText call in progress
  clipOpen,         \* the clipboard is open by this process
  memLocked,        \* the payload memory is locked by this process
  ncalls,           \* number of handler invocations so far
  handled,          \* id of the last notification the handler was called for
  skipped,          \* number of notifications wndProc returned from without a handler call
  input,            \* ParseMoons: the text being parsed
  lines,            \* ParseMoons: strings.Split(input, "\n")
  idx,              \* ParseMoons: index of the next line
  result,           \* ParseMoons: the table under construction
  currentMoon,      \* ParseMoons: the active group key
  ppc,              \* ParseMoons: position
  perr,             \* ParseMoons: the error of the last return
  raddr,            \* ParseMoons: address of the map that result refers to
  held,             \* a table an earlier call returned, as its caller holds it
  prog,             \* main: which of the two main functions runs
  opts,             \* main: the parsed Options
  hpc,              \* handler: position
  htext,            \* handler: the clipboard text it was called with
  hcalls,           \* handler: number of calls so far
  passed,           \* handler: the text of this call passed looksLikeMoonScan
  req,              \* handler: the request built by this call
  sent,             \* handler: the requests this call handed to httpClient.Do
  outcome           \* handler: what httpClient.Do gave for the last request sent

wvars == <<clipboardHandler, classRegistered, watchCalls, loop, ret,
           queue, posted, quitPosted, pc, x, clipOpen, memLocked, ncalls, handled, skipped>>
pvars == <<input, lines, idx, result, currentMoon, ppc, perr, raddr, held>>
uvars == <<prog, opts, hpc, htext, hcalls, passed, req, sent, outcome>>
vars == <<wvars, pvars, uvars>>

(* ======================= internal/clipboardwatcher ==================== *)

IsHigh(u) == u >= 55296 /\ u <= 56319
IsLow(u) == u >= 56320 /\ u <= 57343

\* unicode/utf16.Decode: a high surrogate followed by a low one is one code
\* point, any other surrogate is U+FFFD.
RECURSIVE utf16Decode(_)
utf16Decode(u) ==
  IF u = <<>> THEN <<>>
  ELSE IF Len(u) >= 2 /\ IsHigh(u[1]) /\ IsLow(u[2])
       THEN <<65536 + (u[1] - 55296) * 1024 + (u[2] - 56320)>>
              \o utf16Decode(SubSeq(u, 3, Len(u)))
  ELSE IF IsHigh(u[1]) \/ IsLow(u[1])
       THEN <<65533>> \o utf16Decode(Tail(u))
  ELSE <<u[1]>> \o utf16Decode(Tail(u))

\* The n of utf16PtrToString: the number of units before the first 0.
RECURSIVE ScanNul(_, _)
ScanNul(u, n) == IF u[n + 1] = 0 THEN n ELSE ScanNul(u, n + 1)

\* utf16PtrToString without utf16.Decode: units taken as code points.
utf16PtrToStringRaw(mem) == SubSeq(mem, 1, ScanNul(mem, 0))
\* utf16PtrToString: the units before the terminator, decoded.
utf16PtrToString(mem) == utf16Decode(SubSeq(mem, 1, ScanNul(mem, 0)))

\* time.Sleep argument after the failed attempt number `attempt`, in ms.
Backoff(attempt) == 10 * (2 ^ attempt)

\* The frame before any notification was dispatched.
NoFrame ==
  [call |-> 0, note |-> 0, avail |-> FALSE, attempt |-> 0, opened |-> FALSE,
   handle |-> 0, ptr |-> 0, mem |-> <<>>, text |-> <<>>, err |-> NoErr,
   defers |-> <<>>, slept |-> 0, trace |-> <<>>, h |-> NilHandler, arg |-> <<>>,
   lh |-> NilHandler, before |-> 0]

NoRet == [call |-> 0, h |-> NilHandler, fail |-> "none", err |-> NoErr, entered |-> FALSE]
NoLoop == [call |-> 0, h |-> NilHandler, fail |-> "none"]

\* The steps of Watch that can fail, in the order Watch takes them.
RegistrationSteps ==
  <<"GetModuleHandleEx", "RegisterClassExW", "CreateWindowExW", "AddClipboardFormatListener">>
FailPoints == {"none"} \cup {RegistrationSteps[i] : i \in 1..Len(RegistrationSteps)}

\* Watch without the check of AddClipboardFormatListener's result.
WatchIgnoresListener(h, fail) ==
  IF h = NilHandler
  THEN [err |-> "handler must not be nil", set |-> FALSE, reg |-> FALSE, enter |-> FALSE]
  ELSE IF fail = "GetModuleHandleEx"
  THEN [err |-> "GetModuleHandleEx failed", set |-> TRUE, reg |-> FALSE, enter |-> FALSE]
  ELSE IF fail = "RegisterClassExW"
  THEN [err |-> "RegisterClassExW failed", set |-> TRUE, reg |-> FALSE, enter |-> FALSE]
  ELSE IF fail = "CreateWindowExW"
  THEN [err |-> "CreateWindowExW failed", set |-> TRUE, reg |-> TRUE, enter |-> FALSE]
  ELSE [err |-> NoErr, set |-> TRUE, reg |-> TRUE, enter |-> TRUE]

(***************************************************************************)
(* Watch up to the message loop.  `fail` is the first step the OS reports  *)
(* as failed ("none": all succeed).  set: clipboardHandler was assigned;   *)
(* reg: RegisterClassExW succeeded; enter: the message loop is entered.    *)
(***************************************************************************)
Watch(h, fail) ==
  IF h = NilHandler
  THEN [err |-> "handler must not be nil", set |-> FALSE, reg |-> FALSE, enter |-> FALSE]
  ELSE IF fail = "GetModuleHandleEx"
  THEN [err |-> "GetModuleHandleEx failed", set |-> TRUE, reg |-> FALSE, enter |-> FALSE]
  ELSE IF fail = "RegisterClassExW"
  THEN [err |-> "RegisterClassExW failed", set |-> TRUE, reg |-> FALSE, enter |-> FALSE]
  ELSE IF fail = "CreateWindowExW"
  THEN [err |-> "CreateWindowExW failed", set |-> TRUE, reg |-> TRUE, enter |-> FALSE]
  ELSE IF fail = "AddClipboardFormatListener"
  THEN [err |-> "AddClipboardFormatListener failed", set |-> TRUE, reg |-> TRUE, enter |-> FALSE]
  ELSE [err |-> NoErr, set |-> TRUE, reg |-> TRUE, enter |-> TRUE]

(***************************************************************************)
(* A call of Watch(h), from any goroutine, up to its message loop.  The    *)
(* class name is fixed, so RegisterClassExW fails in a process that has    *)
(* registered it already: a call the OS lets past that step is the first.  *)
(***************************************************************************)
WatchCall(h, fail) ==
  /\ watchCalls < MaxCalls
  /\ h = NilHandler => fail = "none"
  /\ classRegistered => fail \in {"GetModuleHandleEx", "RegisterClassExW"}
  /\ LET r == Watch(h, fail)
         c == watchCalls + 1
     IN /\ watchCalls' = c
        /\ clipboardHandler' = IF r.set THEN h ELSE clipboardHandler
        /\ classRegistered' = (classRegistered \/ r.reg)
        /\ IF r.enter
           THEN /\ loop' = [call |-> c, h |-> h, fail |-> fail]
                /\ pc' = "getmsg"
                /\ UNCHANGED ret
           ELSE /\ ret' = [call |-> c, h |-> h, fail |-> fail, err |-> r.err, entered |-> FALSE]
                /\ UNCHANGED <<loop, pc>>
  /\ UNCHANGED <<queue, posted, quitPosted, x, clipOpen, memLocked, ncalls, handled, skipped, pvars, uvars>>

\* Another process, or the OS, posts a message to the watcher's window.
PostMessage(m) ==
  /\ pc # "none"
  /\ posted < MaxMsgs
  /\ posted' = posted + 1
  /\ queue' = Append(queue, [id |-> posted + 1, msg |-> m])
  /\ UNCHANGED <<clipboardHandler, classRegistered, watchCalls, loop, ret,
                 quitPosted, pc, x, clipOpen, memLocked, ncalls, handled, skipped, pvars, uvars>>

\* GetMessageW taking the newest posted message.
RetrieveNewest(q) == [m |-> q[Len(q)], rest |-> SubSeq(q, 1, Len(q) - 1)]
\* GetMessageW retrieves the oldest posted message and removes it.
Retrieve(q) == [m |-> Head(q), rest |-> Tail(q)]

\* The loop thread may call GetMessageW: it is at the top of the for loop.
AtGetMessage == pc = "getmsg"

(***************************************************************************)
(* One iteration of the message loop that retrieves a posted message and   *)
(* dispatches it to wndProc.  WM_DESTROY and unknown messages are handled  *)
(* within the step; WM_CLIPBOARDUPDATE enters readClipboardText.           *)
(***************************************************************************)
wndProcEntry(m) ==
  IF m.msg = WM_CLIPBOARDUPDATE /\ clipboardHandler # NilHandler THEN "avail" ELSE "getmsg"

GetMessage ==
  /\ AtGetMessage
  /\ queue # <<>>
  /\ LET m == Retrieve(queue).m
     IN /\ queue' = Retrieve(queue).rest
        /\ pc' = wndProcEntry(m)
        /\ quitPosted' = (quitPosted \/ m.msg = WM_DESTROY)
        /\ x' = IF m.msg = WM_CLIPBOARDUPDATE
                THEN [NoFrame EXCEPT !.call = loop.call, !.lh = loop.h, !.note = m.id,
                                     !.before = ncalls]
                ELSE x
  /\ UNCHANGED <<clipboardHandler, classRegistered, watchCalls, loop, ret,
                 posted, clipOpen, memLocked, ncalls, handled, skipped, pvars, uvars>>

\* The error Watch returns when GetMessageW returns r (0: WM_QUIT, -1: error).
LoopReturn(r) == IF r = -1 THEN "GetMessageW error" ELSE NoErr

\* GetMessageW returns 0 once the quit flag is set and no posted message is
\* left, or -1; Watch returns.
GetMessageEnds(r) ==
  /\ AtGetMessage
  /\ r = 0 => (quitPosted /\ queue = <<>>)
  /\ ret' = [call |-> loop.call, h |-> loop.h, fail |-> "none", err |-> LoopReturn(r),
             entered |-> TRUE]
  /\ loop' = NoLoop
  /\ pc' = "none"
  /\ UNCHANGED <<clipboardHandler, classRegistered, watchCalls, queue, posted,
                 quitPosted, x, clipOpen, memLocked, ncalls, handled, skipped, pvars, uvars>>

(* --------------------------- readClipboardText ------------------------ *)

\* Deferred calls run in the order of their defer statements.
RECURSIVE RunDefersInOrder(_, _)
RunDefersInOrder(defers, st) ==
  IF defers = <<>> THEN st
  ELSE LET d == Head(defers)
           s == [trace |-> Append(st.trace, d),
                 clipOpen |-> IF d = "CloseClipboard" THEN FALSE ELSE st.clipOpen,
                 memLocked |-> IF d = "GlobalUnlock" THEN FALSE ELSE st.memLocked]
       IN RunDefersInOrder(Tail(defers), s)

\* The deferred calls run last-in first-out when readClipboardText returns.
RECURSIVE RunDefers(_, _)
RunDefers(defers, st) ==
  IF defers = <<>> THEN st
  ELSE LET d == defers[Len(defers)]
           s == [trace |-> Append(st.trace, d),
                 clipOpen |-> IF d = "CloseClipboard" THEN FALSE ELSE st.clipOpen,
                 memLocked |-> IF d = "GlobalUnlock" THEN FALSE ELSE st.memLocked]
       IN RunDefers(SubSeq(defers, 1, Len(defers) - 1), s)

\* wndProc calling the handler whatever err is.
AfterReadAlways(err) == "handler"
\* wndProc line 139: the handler is called only when err is nil.
AfterRead(err) == IF err = NoErr THEN "handler" ELSE "getmsg"

\* readClipboardText returns (text, err) from frame f; wndProc goes on.
ReturnFrom(f, text, err) ==
  LET s == RunDefers(f.defers, [trace |-> f.trace, clipOpen |-> clipOpen, memLocked |-> memLocked])
  IN /\ x' = [f EXCEPT !.text = text, !.err = err, !.trace = s.trace, !.defers = <<>>]
     /\ clipOpen' = s.clipOpen
     /\ memLocked' = s.memLocked
     /\ pc' = AfterRead(err)
     /\ skipped' = IF AfterRead(err) = "handler" THEN skipped ELSE skipped + 1

\* Line 93: IsClipboardFormatAvailable(CF_UNICODETEXT) returns r.
IsClipboardFormatAvailable(r) ==
  /\ pc = "avail"
  /\ LET f == [x EXCEPT !.avail = r, !.trace = Append(@, "IsClipboardFormatAvailable")]
     IN IF r
        THEN /\ x' = f
             /\ pc' = "open"
             /\ UNCHANGED <<clipOpen, memLocked, skipped>>
        ELSE ReturnFrom(f, <<>>, "no CF_UNICODETEXT available")
  /\ UNCHANGED <<clipboardHandler, classRegistered, watchCalls, loop, ret,
                 queue, posted, quitPosted, ncalls, handled, pvars, uvars>>

\* The retry loop with one attempt too many.
RetryOnceMore(attempt) == attempt + 1 <= maxAttempts
\* Line 105: the retry loop goes on after the failed attempt number `attempt`.
Retry(attempt) == attempt + 1 < maxAttempts


\* Lines 105-117: one iteration of the retry loop; OpenClipboard returns r.
OpenClipboard(r) ==
  /\ pc = "open"
  /\ LET f == [x EXCEPT !.trace = Append(@, "OpenClipboard")]
     IN IF r
        THEN /\ x' = [f EXCEPT !.opened = TRUE, !.defers = Append(@, "CloseClipboard")]
             /\ clipOpen' = TRUE
             /\ pc' = "getdata"
             /\ UNCHANGED <<memLocked, skipped>>
        ELSE LET g == [f EXCEPT !.slept = @ + Backoff(x.attempt), !.attempt = @ + 1]
             IN IF Retry(x.attempt)
                THEN /\ x' = g
                     /\ pc' = "open"
                     /\ UNCHANGED <<clipOpen, memLocked, skipped>>
                ELSE ReturnFrom(g, <<>>, "OpenClipboard failed")
  /\ UNCHANGED <<clipboardHandler, classRegistered, watchCalls, loop, ret,
                 queue, posted, quitPosted, ncalls, handled, pvars, uvars>>

\* Lines 119-122: GetClipboardData returns the handle p (0: null).
GetClipboardData(p) ==
  /\ pc = "getdata"
  /\ LET f == [x EXCEPT !.handle = p,
                        !.mem = IF p = 0 THEN <<>> ELSE Payloads[p].units,
                        !.trace = Append(@, "GetClipboardData")]
     IN IF p = 0
        THEN ReturnFrom(f, <<>>, "GetClipboardData returned null")
        ELSE /\ x' = f
             /\ pc' = "lock"
             /\ UNCHANGED <<clipOpen, memLocked, skipped>>
  /\ UNCHANGED <<clipboardHandler, classRegistered, watchCalls, loop, ret,
                 queue, posted, quitPosted, ncalls, handled, pvars, uvars>>

\* readClipboardText without its defer of GlobalUnlock.
DefersNoUnlock(d) == d
\* Line 128: the deferred calls after a successful GlobalLock.
DefersAfterLock(d) == Append(d, "GlobalUnlock")

\* Lines 124-128: GlobalLock returns r (FALSE: a null pointer).
GlobalLock(r) ==
  /\ pc = "lock"
  /\ LET f == [x EXCEPT !.trace = Append(@, "GlobalLock")]
     IN IF r
        THEN /\ x' = [f EXCEPT !.ptr = x.handle, !.defers = DefersAfterLock(@)]
             /\ memLocked' = TRUE
             /\ pc' = "decode"
             /\ UNCHANGED <<clipOpen, skipped>>
        ELSE ReturnFrom([f EXCEPT !.mem = <<>>], <<>>, "GlobalLock failed")
  /\ UNCHANGED <<clipboardHandler, classRegistered, watchCalls, loop, ret,
                 queue, posted, quitPosted, ncalls, handled, pvars, uvars>>

\* Lines 130-131: decode and return; the deferred calls run.
Decode ==
  /\ pc = "decode"
  /\ ReturnFrom([x EXCEPT !.trace = Append(@, "decode")], utf16PtrToString(x.mem), NoErr)
  /\ UNCHANGED <<clipboardHandler, classRegistered, watchCalls, loop, ret,
                 queue, posted, quitPosted, ncalls, handled, pvars, uvars>>

\* wndProc line 140: clipboardHandler(text), then wndProc returns 0.
CallHandler ==
  /\ pc = "handler"
  /\ x' = [x EXCEPT !.h = clipboardHandler, !.arg = x.text, !.trace = Append(@, "handler")]
  /\ ncalls' = ncalls + 1
  /\ handled' = x.note
  /\ pc' = "getmsg"
  /\ UNCHANGED <<clipboardHandler, classRegistered, watchCalls, loop, ret,
                 queue, posted, quitPosted, clipOpen, memLocked, skipped, pvars, uvars>>

(* ========================= internal/moonparse ========================= *)

(***************************************************************************)
(* Strings are sequences of one-character strings.                         *)
(***************************************************************************)
\* The literal of strings.Contains in ParseMoons.
MoonProductMarker == <<"M", "o", "o", "n", " ", "P", "r", "o", "d", "u", "c", "t">>
\* The literal part of moonLineRe.
MoonInfix == <<" ", "-", " ", "M", "o", "o", "n", " ">>

\* Lines the input texts are made of.
\* whitespace only
LineBlank == <<" ", "\t">>
\* a group header
LineMoonA == <<"A", " ", "-", " ", "M", "o", "o", "n", " ", "1">>
\* a group header, CRLF line ending
LineMoonB == <<"B", " ", "-", " ", "M", "o", "o", "n", " ", "2", "\r">>
\* a data row, six tokens
LineRowX == <<"x", " ", "1", ".", "5", " ", "1", " ", "2", " ", "3", " ", "4">>
\* a data row for the same name, integer quantity
LineRowX2 == <<"x", " ", "2", " ", "5", " ", "6", " ", "7", " ", "8">>
\* a data row with a two-word name, seven tokens
LineRowXY == <<"x", " ", "y", " ", "1", ".", "5", " ", "1", " ", "2", " ", "3", " ", "4">>
\* five numerals after one blank
LineFive == <<" ", "1", " ", "2", " ", "3", " ", "4", " ", "5">>
\* five numerals after two blanks
LineFiveLead == <<" ", " ", "1", ".", "2", "5", " ", "1", "0", " ", "2", "0", " ", "3", "0", " ", "4", "0">>
\* the marker, in the shape of a header
LineMarkerMoon == <<"M", "o", "o", "n", " ", "P", "r", "o", "d", "u", "c", "t", " ", "-", " ", "M", "o", "o", "n", " ", "3">>
\* the marker, in the shape of a data row
LineMarkerRow == <<"M", "o", "o", "n", " ", "P", "r", "o", "d", "u", "c", "t", " ", "1", " ", "2", " ", "3", " ", "4", " ", "5">>
LinePool ==
  {LineBlank, LineMoonA, LineMoonB, LineRowX, LineRowX2,
   LineRowXY, LineFive, LineFiveLead, LineMarkerMoon, LineMarkerRow}

\* Lines of one input text.
MaxLines == 3

RECURSIVE Join(_, _)
Join(ls, sep) ==
  IF ls = <<>> THEN <<>>
  ELSE IF Len(ls) = 1 THEN ls[1]
  ELSE ls[1] \o <<sep>> \o Join(Tail(ls), sep)

\* The scan of the README's example output: a group header and one row.
ExampleMoon ==
  <<"6", "6", "-", "P", "M", "M", " ", "V", " ", "-", " ", "M", "o", "o", "n", " ", "1", "5">>
ExampleName ==
  <<"F", "l", "a", "w", "l", "e", "s", "s", " ", "A", "r", "k", "o", "n", "o", "r">>
ExampleQuantity == <<"0", ".", "3", "2", "3", "7", "6", "2", "1", "4", "8", "6", "1", "9">>
ExampleOreTypeID == <<"4", "6", "6", "7", "8">>
ExampleSolarSystemID == <<"3", "0", "0", "0", "4", "9", "2", "3">>
ExamplePlanetID == <<"4", "0", "3", "1", "1", "9", "6", "9">>
ExampleMoonID == <<"4", "0", "3", "1", "1", "9", "8", "5">>
ExampleRow ==
  ExampleName \o <<" ">> \o ExampleQuantity \o <<" ">> \o ExampleOreTypeID \o <<" ">> \o
  ExampleSolarSystemID \o <<" ">> \o ExamplePlanetID \o <<" ">> \o ExampleMoonID
ExampleText == ExampleMoon \o <<"\n">> \o ExampleRow

\* The input texts: up to MaxLines pool lines joined by "\n", and the example.
LineSeqs == UNION {[1..n -> LinePool] : n \in 0..MaxLines}
Texts == {Join(ls, "\n") : ls \in LineSeqs} \cup {ExampleText}

\* The texts of repeated calls: up to MaxCallLines lines of CallPool.
MaxCallLines == 2
CallPool == {LineMoonA, LineRowX, LineRowX2}
CallTexts == {Join(ls, "\n") : ls \in UNION {[1..n -> CallPool] : n \in 0..MaxCallLines}}

\* \s of package regexp, and the ASCII cutset of strings.TrimSpace.
IsSpace(c) == c \in {" ", "\t", "\n", "\r", "\f"}
AllSpace(s) == \A i \in DOMAIN s : IsSpace(s[i])

\* \d+
AllDigits(s) ==
  /\ s # <<>>
  /\ \A i \in DOMAIN s : s[i] \in {"0", "1", "2", "3", "4", "5", "6", "7", "8", "9"}

\* [0-9]+(?:\.[0-9]+)?
IsDecimal(s) ==
  \/ AllDigits(s)
  \/ \E p \in DOMAIN s :
       /\ s[p] = "."
       /\ AllDigits(SubSeq(s, 1, p - 1))
       /\ AllDigits(SubSeq(s, p + 1, Len(s)))

\* strings.Split(s, sep) for a one-character sep.
RECURSIVE Split(_, _)
Split(s, sep) ==
  IF \A i \in DOMAIN s : s[i] # sep THEN <<s>>
  ELSE LET p == CHOOSE i \in DOMAIN s : s[i] = sep /\ \A k \in 1..(i - 1) : s[k] # sep
       IN <<SubSeq(s, 1, p - 1)>> \o Split(SubSeq(s, p + 1, Len(s)), sep)

\* strings.TrimRight(s, c) for a one-character cutset.
RECURSIVE TrimRight(_, _)
TrimRight(s, c) ==
  IF s # <<>> /\ s[Len(s)] = c THEN TrimRight(SubSeq(s, 1, Len(s) - 1), c) ELSE s

RECURSIVE TrimSpace(_)
TrimSpace(s) ==
  IF s # <<>> /\ IsSpace(s[1]) THEN TrimSpace(Tail(s))
  ELSE IF s # <<>> /\ IsSpace(s[Len(s)]) THEN TrimSpace(SubSeq(s, 1, Len(s) - 1))
  ELSE s

\* strings.Contains(s, sub)
Contains(s, sub) ==
  \E i \in 1..(Len(s) - Len(sub) + 1) : SubSeq(s, i, i + Len(sub) - 1) = sub

\* The maximal runs of non-\s characters of s, in order.
RECURSIVE Fields(_)
Fields(s) ==
  IF s = <<>> THEN <<>>
  ELSE IF IsSpace(s[1]) THEN Fields(Tail(s))
  ELSE LET e == CHOOSE i \in DOMAIN s :
                  /\ \A k \in 1..i : ~IsSpace(s[k])
                  /\ (i = Len(s) \/ IsSpace(s[i + 1]))
       IN <<SubSeq(s, 1, e)>> \o Fields(SubSeq(s, e + 1, Len(s)))

SetMax(S) == CHOOSE m \in S : \A k \in S : k <= m
SetMin(S) == CHOOSE m \in S : \A k \in S : m <= k

\* g matches `.+ - Moon \d+`.
MoonBody(g) ==
  \E d \in 1..Len(g) :
    /\ AllDigits(SubSeq(g, Len(g) - d + 1, Len(g)))
    /\ Len(g) - d >= Len(MoonInfix) + 1
    /\ SubSeq(g, Len(g) - d - Len(MoonInfix) + 1, Len(g) - d) = MoonInfix

(***************************************************************************)
(* moonLineRe.FindStringSubmatch(line), `^\s*(.+ - Moon \d+)\s*$`: the     *)
(* empty sequence when there is no match, else <<match, group 1>>.  \s* is *)
(* greedy: group 1 starts after the longest run of leading blanks that     *)
(* still leaves a match.                                                   *)
(***************************************************************************)
moonLineRe(line) ==
  LET n == Len(line)
      ends == {k \in 1..n : AllSpace(SubSeq(line, k + 1, n))}
      starts == {i \in 0..n : /\ AllSpace(SubSeq(line, 1, i))
                              /\ \E k \in ends : MoonBody(SubSeq(line, i + 1, k))}
  IN IF starts = {} THEN <<>>
     ELSE LET i == SetMax(starts)
              k == CHOOSE e \in ends : MoonBody(SubSeq(line, i + 1, e))
          IN <<line, SubSeq(line, i + 1, k)>>

\* t matches `\s+([0-9]+(?:\.[0-9]+)?)\s+(\d+)\s+(\d+)\s+(\d+)\s+(\d+)\s*$`.
RowTail(t) ==
  /\ t # <<>>
  /\ IsSpace(t[1])
  /\ LET f == Fields(t)
     IN /\ Len(f) = 5
        /\ IsDecimal(f[1])
        /\ \A i \in 2..5 : AllDigits(f[i])

\* The name group as `(.*?)`.
NameMayBeEmpty(i, j) == i <= j
\* The name group `(.+?)` of productLineRe, from after position i to j.
NameEnd(i, j) == i < j

(***************************************************************************)
(* productLineRe.FindStringSubmatch(line),                                 *)
(* `^\s*(.+?)\s+([0-9]+(?:\.[0-9]+)?)\s+(\d+)\s+(\d+)\s+(\d+)\s+(\d+)\s*$`:*)
(* the empty sequence when there is no match, else <<match, groups 1..6>>. *)
(* \s* is greedy and the name lazy: of the matches the one with the most   *)
(* leading blanks skipped, and then the shortest name, is reported.        *)
(***************************************************************************)
productLineRe(line) ==
  LET n == Len(line)
      tails == {j \in 0..n : RowTail(SubSeq(line, j + 1, n))}
      starts == {i \in 0..n : /\ AllSpace(SubSeq(line, 1, i))
                              /\ \E j \in tails : NameEnd(i, j)}
  IN IF starts = {} THEN <<>>
     ELSE LET i == SetMax(starts)
              j == SetMin({e \in tails : NameEnd(i, e)})
              f == Fields(SubSeq(line, j + 1, n))
          IN <<line, SubSeq(line, i + 1, j), f[1], f[2], f[3], f[4], f[5]>>

\* A map made with an entry for the empty key.
EmptyMapWithDefault == [k \in {<<>>} |-> <<>>]

\* make(MoonProducts), and make(map[string]MoonProductData).
EmptyMap == <<>>

\* An assignment that keeps the record a product already has.
PutIfAbsent(res, moon, product, data) ==
  [m \in DOMAIN res |->
     IF m = moon
     THEN [p \in DOMAIN res[m] \cup {product} |->
             IF p \in DOMAIN res[m] THEN res[m][p] ELSE data]
     ELSE res[m]]

\* result[moon][product] = data, for a moon that is a key of result.
Put(res, moon, product, data) ==
  [m \in DOMAIN res |->
     IF m = moon
     THEN [p \in DOMAIN res[m] \cup {product} |-> IF p = product THEN data ELSE res[m][p]]
     ELSE res[m]]

\* ParseMoons without the check of line 144.
NoMoonNever(cm) == FALSE
\* Line 144: no moon line has been seen yet.
NoMoon(cm) == cm = <<>>

\* A test for the line that is the column title and nothing else.
HasMarkerOnly(trimmed) == trimmed = MoonProductMarker

\* Lines 132-134: the line is a column-header line of the scan.
HasMarker(trimmed) == Contains(trimmed, MoonProductMarker)

\* A line passed over ends the group.
ContinueReset(st) == [st EXCEPT !.currentMoon = <<>>]

\* Lines 128, 133, 145 and the fall-through of line 158: the line is passed over.
Continue(st) == st

\* A header branch that makes no inner map.
EnsureMoonNever(res, moon) == res

\* A header branch that makes the inner map anew each time.
EnsureMoonAnew(res, moon) ==
  [k \in DOMAIN res \cup {moon} |-> IF k = moon THEN EmptyMap ELSE res[k]]

\* Lines 139-141: the inner map of moon is made unless moon is a key already.
EnsureMoon(res, moon) ==
  IF moon \in DOMAIN res THEN res
  ELSE [k \in DOMAIN res \cup {moon} |-> IF k = moon THEN EmptyMap ELSE res[k]]

\* A record with the last two captures in each other's place.
MoonProductDataSwapped(m) ==
  [Quantity |-> m[3], OreTypeID |-> m[4], SolarSystemID |-> m[5],
   PlanetID |-> m[7], MoonID |-> m[6]]

\* Lines 150-156: the MoonProductData of a match m of productLineRe.
MoonProductData(m) ==
  [Quantity |-> m[3], OreTypeID |-> m[4], SolarSystemID |-> m[5],
   PlanetID |-> m[6], MoonID |-> m[7]]

(***************************************************************************)
(* The body of the for loop of ParseMoons on rawLine, from the state       *)
(* st = [result, currentMoon, panic].  Writing into the inner map of a     *)
(* moon that is not a key of result is a write into a nil map: a panic.    *)
(***************************************************************************)
LoopBody(st, rawLine) ==
  LET line == TrimRight(rawLine, "\r")
      trimmed == TrimSpace(line)
      m == moonLineRe(line)
      p == productLineRe(line)
  IN IF trimmed = <<>> THEN Continue(st)
     ELSE IF HasMarker(trimmed) THEN Continue(st)
     ELSE IF Len(m) = 2
     THEN [st EXCEPT !.currentMoon = m[2], !.result = EnsureMoon(st.result, m[2])]
     ELSE IF NoMoon(st.currentMoon) THEN Continue(st)
     ELSE IF Len(p) = 7
     THEN IF st.currentMoon \in DOMAIN st.result
          THEN [st EXCEPT !.result =
                  Put(st.result, st.currentMoon, p[2], MoonProductData(p))]
          ELSE [st EXCEPT !.panic = TRUE]
     ELSE Continue(st)

\* ParseMoons as a function of its input: the table, or a panic.
RECURSIVE ParseLines(_, _)
ParseLines(st, ls) ==
  IF ls = <<>> \/ st.panic THEN st ELSE ParseLines(LoopBody(st, Head(ls)), Tail(ls))

ParseMoons(text) ==
  ParseLines([result |-> EmptyMap, currentMoon |-> <<>>, panic |-> FALSE], Split(text, "\n"))

\* The addresses of maps, 0 for no map, and no table held.
Addrs == {1, 2}
NoTable == [input |-> <<>>, table |-> <<>>, addr |-> 0, since |-> 0]

\* A table at one fixed address, as a package-level variable would be.
MakeShared(inuse) == 1

\* Line 120, make(MoonProducts): a new map, at an address no live map has.
Make(inuse) == CHOOSE a \in Addrs : a \notin inuse

\* Lines 120-123: the locals of a call of ParseMoons(text).
ParseMoonsEntry(text) ==
  /\ input' = text
  /\ lines' = Split(text, "\n")
  /\ idx' = 1
  /\ raddr' = Make({held.addr})
  /\ result' = EmptyMap
  /\ currentMoon' = <<>>
  /\ ppc' = "loop"
  \* since: the calls made since the table was kept: none, one, more
  /\ held' = IF held.addr # 0 /\ held.since < 2 THEN [held EXCEPT !.since = @ + 1] ELSE held
  /\ UNCHANGED <<perr, wvars, uvars>>

\* ParseMoons(text) is called for the first time.
ParseMoonsCall(text) ==
  /\ ppc = "idle"
  /\ ParseMoonsEntry(text)

\* ParseMoons(text) is called after an earlier call has returned.
ParseMoonsAgain(text) ==
  /\ ppc = "done"
  /\ ParseMoonsEntry(text)

\* The caller keeps the table the call returned (data, in main.go).
Keep ==
  /\ ppc = "done"
  /\ held' = [input |-> input, table |-> result, addr |-> raddr, since |-> 0]
  /\ UNCHANGED <<input, lines, idx, result, currentMoon, ppc, perr, raddr, wvars, uvars>>

\* One iteration of the for loop: lines 124-159.
ParseLine ==
  /\ ppc = "loop"
  /\ idx <= Len(lines)
  /\ LET st == LoopBody([result |-> result, currentMoon |-> currentMoon, panic |-> FALSE],
                        lines[idx])
     IN /\ result' = st.result
        /\ currentMoon' = st.currentMoon
        /\ ppc' = IF st.panic THEN "panic" ELSE "loop"
        \* a write into the map at raddr shows in every reference to that map
        /\ held' = IF held.addr = raddr THEN [held EXCEPT !.table = st.result] ELSE held
  /\ idx' = idx + 1
  /\ UNCHANGED <<input, lines, perr, raddr, wvars, uvars>>

\* Line 160: return result, nil.
ParseReturn ==
  /\ ppc = "loop"
  /\ idx > Len(lines)
  /\ ppc' = "done"
  /\ perr' = NoErr
  /\ UNCHANGED <<input, lines, idx, result, currentMoon, raddr, held, wvars, uvars>>

(* ====================== main and its handler ========================== *)

\* Clipboard texts handed to the handler in one run.
MaxClips == 2

\* The two main functions of the repository.
MainGo == "cmd/goosniffer/main.go"
Part000 == "unnamed/part_000"

\* Values of --api-endpoint and --api-token; "" is a setting left out, and
\* "::bad" is an endpoint that net/url does not parse.
Endpoints == {"", "https://example.com/api/moonscan", "::bad"}
Tokens == {"", "your-secret-token"}
ValidURL(u) == u = "https://example.com/api/moonscan"

\* Clipboard texts: empty, blank, a scan without and with its column-header
\* line, and a column-header line alone.
ClipTexts ==
  {<<>>, LineBlank, Join(<<LineMoonA, LineRowX>>, "\n"),
   Join(<<LineMarkerRow, LineMoonA, LineRowX>>, "\n"), LineMarkerMoon}

\* Responses of httpClient.Do: 0 for an error, else the status code.
Responses == {0, 200, 404, 500}

NoRequest == [method |-> "", url |-> "", contentType |-> "", auth |-> <<>>]

looksLikeMoonScan(s) ==
  LET t == TrimSpace(s)
  IN t # <<>> /\ Contains(t, MoonProductMarker)

\* The condition of the upload block: main.go line 63, part_000 line 66.
UploadCondition(p, o) ==
  IF p = MainGo THEN o.APIToken # "" /\ o.APIEndpoint # ""
  ELSE o.APIEndpoint # ""

\* The Authorization header of the request: main.go line 72, part_000 lines 76-78.
Authorization(p, o) ==
  IF p = MainGo \/ o.APIToken # "" THEN <<"Bearer", o.APIToken>> ELSE <<>>

\* main up to the call of Watch: the flags and the environment are parsed.
ParseFlags(p, endpoint, token) ==
  /\ hpc = "start"
  /\ prog' = p
  /\ opts' = [APIEndpoint |-> endpoint, APIToken |-> token]
  /\ hpc' = "idle"
  /\ UNCHANGED <<htext, hcalls, passed, req, sent, outcome, wvars, pvars>>

\* The watcher calls the handler with text: up to the detection gate.
Handler(text) ==
  /\ hpc = "idle"
  /\ hcalls < MaxClips
  /\ htext' = text
  /\ hcalls' = hcalls + 1
  /\ passed' = looksLikeMoonScan(text)
  /\ req' = NoRequest
  /\ sent' = 0
  /\ outcome' = "none"
  /\ hpc' = IF looksLikeMoonScan(text) THEN "parse" ELSE "idle"
  /\ UNCHANGED <<prog, opts, wvars, pvars>>

\* ParseMoons and json.Marshal.  ParseMoons returns no error, and a map of
\* maps of structs of strings is marshalled without error.
ParseAndMarshal ==
  /\ hpc = "parse"
  /\ hpc' = IF ParseMoons(htext).panic THEN "crashed" ELSE "upload"
  /\ UNCHANGED <<prog, opts, htext, hcalls, passed, req, sent, outcome, wvars, pvars>>

\* The if of the upload block.
Upload ==
  /\ hpc = "upload"
  /\ hpc' = IF UploadCondition(prog, opts) THEN "newreq" ELSE "idle"
  /\ UNCHANGED <<prog, opts, htext, hcalls, passed, req, sent, outcome, wvars, pvars>>

\* http.NewRequest and the headers; the handler returns when it fails.
NewRequest ==
  /\ hpc = "newreq"
  /\ IF ValidURL(opts.APIEndpoint)
     THEN /\ req' = [method |-> "POST", url |-> opts.APIEndpoint,
                     contentType |-> "application/json",
                     auth |-> Authorization(prog, opts)]
          /\ hpc' = "do"
     ELSE /\ hpc' = "idle"
          /\ UNCHANGED req
  /\ UNCHANGED <<prog, opts, htext, hcalls, passed, sent, outcome, wvars, pvars>>

\* httpClient.Do(req) and the log line of its result; the handler returns.
Do(r) ==
  /\ hpc = "do"
  /\ sent' = sent + 1
  /\ outcome' = IF r = 0 THEN "failed"
                ELSE IF r >= 200 /\ r < 300 THEN "posted" ELSE "status"
  /\ hpc' = "idle"
  /\ UNCHANGED <<prog, opts, htext, hcalls, passed, req, wvars, pvars>>

(* --------------------------- specifications --------------------------- *)

UInit ==
  /\ prog = "none"
  /\ opts = [APIEndpoint |-> "", APIToken |-> ""]
  /\ hpc = "start"
  /\ htext = <<>>
  /\ hcalls = 0
  /\ passed = FALSE
  /\ req = NoRequest
  /\ sent = 0
  /\ outcome = "none"


PInit ==
  /\ input = <<>>
  /\ lines = <<>>
  /\ idx = 0
  /\ result = <<>>
  /\ currentMoon = <<>>
  /\ ppc = "idle"
  /\ perr = "unset"
  /\ raddr = 0
  /\ held = NoTable

WInit ==
  /\ clipboardHandler = NilHandler
  /\ classRegistered = FALSE
  /\ watchCalls = 0
  /\ loop = NoLoop
  /\ ret = NoRet
  /\ queue = <<>>
  /\ posted = 0
  /\ quitPosted = FALSE
  /\ pc = "none"
  /\ x = NoFrame
  /\ clipOpen = FALSE
  /\ memLocked = FALSE
  /\ ncalls = 0
  /\ handled = 0
  /\ skipped = 0

Init == WInit /\ PInit /\ UInit

Next ==
  \/ \E h \in Handlers \cup {NilHandler}, fail \in FailPoints : WatchCall(h, fail)
  \/ \E m \in {WM_CLIPBOARDUPDATE, WM_DESTROY, WM_OTHER} : PostMessage(m)
  \/ GetMessage
  \/ \E r \in {0, -1} : GetMessageEnds(r)
  \/ \E r \in BOOLEAN : IsClipboardFormatAvailable(r)
  \/ \E r \in BOOLEAN : OpenClipboard(r)
  \/ \E p \in Handles : GetClipboardData(p)
  \/ \E r \in BOOLEAN : GlobalLock(r)
  \/ Decode
  \/ CallHandler

Spec == Init /\ [][Next]_vars

NextParse ==
  \/ \E text \in Texts : ParseMoonsCall(text)
  \/ ParseLine
  \/ ParseReturn

SpecParse == Init /\ [][NextParse]_vars

\* ParseMoons called time and again, on texts of up to MaxCallLines lines of
\* CallPool, by a caller that may keep a returned table.
NextCalls ==
  \/ \E text \in CallTexts : ParseMoonsCall(text)
  \/ \E text \in CallTexts : ParseMoonsAgain(text)
  \/ ParseLine
  \/ ParseReturn
  \/ Keep

SpecCalls == Init /\ [][NextCalls]_vars

\* Either main, with any setting of the two options, and its handler called
\* with up to MaxClips clipboard texts.
NextUpload ==
  \/ \E p \in {MainGo, Part000}, e \in Endpoints, t \in Tokens : ParseFlags(p, e, t)
  \/ \E text \in ClipTexts : Handler(text)
  \/ ParseAndMarshal
  \/ Upload
  \/ NewRequest
  \/ \E r \in Responses : Do(r)

SpecUpload == Init /\ [][NextUpload]_vars

(* ====================== properties of the watcher ===================== *)

Count(tr, e) == Cardinality({i \in DOMAIN tr : tr[i] = e})

\* readClipboardText is running for notification x.note.
InRead == pc \in {"avail", "open", "getdata", "lock", "decode"}
\* wndProc has returned for the last dispatched notification, x.note.
Finished == x.note # 0 /\ pc \in {"getmsg", "none"}

\* The documented backoff delays, in ms.
Delays == <<10, 20, 40, 80, 160>>
RECURSIVE SumDelays(_)
SumDelays(k) == IF k = 0 THEN 0 ELSE Delays[k] + SumDelays(k - 1)

\* C1: one extraction calls OpenClipboard at most 5 times and stops at the
\* first success; after the k-th failure it has slept 10+20+..., never more
\* than 310 ms; after 5 failures it returns an error and the handler is not
\* called for that notification.
C1_RetryBudget ==
  LET opens == Count(x.trace, "OpenClipboard")
  IN /\ opens <= 5
     /\ x.attempt <= 5
     /\ opens = x.attempt + (IF x.opened THEN 1 ELSE 0)
     /\ x.slept = SumDelays(x.attempt)
     /\ x.slept <= 310
     /\ x.attempt = 5 =>
          /\ ~x.opened
          /\ Finished
          /\ x.err # NoErr
          /\ x.h = NilHandler
          /\ ncalls = x.before

C1_Witness ==
  /\ Finished
  /\ x.attempt = 5
  /\ x.slept = 310
  /\ x.err = "OpenClipboard failed"
  /\ ncalls = x.before

\* C2: k failed OpenClipboard attempts (k = 0..4) followed by a success, a
\* non-null handle and a successful lock: the text is the decoded payload,
\* the handler is called once with it, and the sleep before the successful
\* attempt is the sum of the first k delays (150 ms for k = 4).
C2_RetryThenSuccess ==
  \A k \in 0..4 :
    (x.attempt = k /\ x.opened /\ x.handle # 0 /\ x.ptr # 0) =>
      /\ x.slept = SumDelays(k)
      /\ k = 4 => x.slept >= 150
      /\ pc = "handler" => (x.err = NoErr /\ x.text = Payloads[x.handle].text)
      /\ Finished =>
           /\ x.err = NoErr
           /\ x.h # NilHandler
           /\ x.arg = Payloads[x.handle].text
           /\ ncalls = x.before + 1
           /\ handled = x.note

C2_Witness ==
  /\ Finished
  /\ x.attempt = 4
  /\ x.slept = 150
  /\ x.handle = 2
  /\ x.arg = <<128512>>
  /\ ncalls = x.before + 1

\* C3: every successful OpenClipboard is followed by exactly one
\* CloseClipboard and every successful GlobalLock by exactly one GlobalUnlock
\* before readClipboardText returns, on every exit path; no release is made
\* without its acquisition.
C3_ReleasedOnEveryExit ==
  LET closes == Count(x.trace, "CloseClipboard")
      unlocks == Count(x.trace, "GlobalUnlock")
  IN /\ InRead =>
          /\ closes = 0
          /\ unlocks = 0
          /\ clipOpen = x.opened
          /\ memLocked = (x.ptr # 0)
     /\ ~InRead =>
          /\ closes = (IF x.opened THEN 1 ELSE 0)
          /\ unlocks = (IF x.ptr # 0 THEN 1 ELSE 0)
          /\ ~clipOpen
          /\ ~memLocked

C3_Witness ==
  /\ Finished
  /\ x.err = "GlobalLock failed"
  /\ Count(x.trace, "CloseClipboard") = 1
  /\ Count(x.trace, "GlobalUnlock") = 0
  /\ ~clipOpen

\* C4: per notification the handler is called once if the format is
\* available, the clipboard was opened, the handle is non-null and the lock
\* succeeded, and not at all otherwise (no OpenClipboard when the format is
\* absent); a failed extraction leaves the loop running.
C4_Result ==
  /\ Finished =>
       ncalls - x.before =
         (IF x.avail /\ x.opened /\ x.handle # 0 /\ x.ptr # 0 THEN 1 ELSE 0)
  /\ ~x.avail => Count(x.trace, "OpenClipboard") = 0

C4_FailureStep ==
  (InRead /\ x'.err # NoErr) =>
    /\ pc' = "getmsg"
    /\ loop' = loop
    /\ ret' = ret
    /\ ncalls' = ncalls
    /\ skipped' = skipped + 1

C4_OncePerNotification == []C4_Result /\ [][C4_FailureStep]_vars

C4_Witness ==
  /\ Finished
  /\ skipped >= 1
  /\ x.err = NoErr
  /\ ncalls = x.before + 1
  /\ handled = x.note

\* C5: a Watch call with a nil handler or a failing registration step
\* returns an error, never enters the message loop and never dispatches a
\* notification.
C5_FailedWatchDoesNothing ==
  /\ (ret.call # 0 /\ (ret.h = NilHandler \/ ret.fail # "none")) =>
       (ret.err # NoErr /\ ~ret.entered)
  /\ (ret.call # 0 /\ ~ret.entered) => (loop.call # ret.call /\ x.call # ret.call)
  /\ loop.call # 0 => (loop.h # NilHandler /\ loop.fail = "none")
  /\ x.call # 0 => x.lh # NilHandler

C5_Witness ==
  /\ ret.fail = "AddClipboardFormatListener"
  /\ ret.err = "AddClipboardFormatListener failed"
  /\ ~ret.entered
  /\ loop.call = 0
  /\ ncalls = 0

\* C6: once the destroy signal has been delivered to wndProc, the handler is
\* not invoked again.
C6_NoHandlerAfterTeardown == [][quitPosted => ncalls' = ncalls]_vars

\* C7: a message is retrieved only while no wndProc call is in progress, it
\* is the oldest one, and handler calls follow the order of delivery.
C7_Step ==
  /\ queue' # queue /\ Len(queue') <= Len(queue) =>
       (pc = "getmsg" /\ queue' = Tail(queue))
  /\ x'.note # x.note =>
       (pc = "getmsg" /\ x'.note = Head(queue).id /\ x'.note > x.note /\ x'.note > handled)
  /\ ncalls' # ncalls =>
       (pc = "handler" /\ ncalls' = ncalls + 1 /\ handled' = x.note /\ handled' > handled)

C7_Serial == [][C7_Step]_vars

C7_Witness ==
  /\ pc = "handler"
  /\ ncalls >= 1
  /\ queue # <<>>
  /\ Head(queue).msg = WM_CLIPBOARDUPDATE

\* C8: the handler called for a notification is the one passed to the Watch
\* call whose loop dispatches it.
C8_HandlerOfTheLoop == x.h # NilHandler => x.h = x.lh

(* ====================== properties of the parser ====================== *)

\* rawLine is recognized as a group header by the loop body.
IsGroupHeader(rawLine) ==
  LET line == TrimRight(rawLine, "\r")
  IN /\ TrimSpace(line) # <<>>
     /\ ~Contains(TrimSpace(line), MoonProductMarker)
     /\ Len(moonLineRe(line)) = 2

\* ls from its first group header on; nothing when it has none.
FromFirstHeader(ls) ==
  LET hs == {i \in DOMAIN ls : IsGroupHeader(ls[i])}
  IN IF hs = {} THEN <<>> ELSE SubSeq(ls, SetMin(hs), Len(ls))

\* C9: the lines before the first recognized group header contribute
\* nothing: the table is empty until that header, and the returned table is
\* the one returned for the input without those lines.
C9_LinesBeforeHeader ==
  /\ ppc # "panic"
  /\ (ppc = "loop" /\ \A i \in 1..(idx - 1) : ~IsGroupHeader(lines[i])) =>
       (result = EmptyMap /\ currentMoon = <<>>)
  /\ ppc = "done" =>
       LET r == ParseMoons(Join(FromFirstHeader(lines), "\n"))
       IN ~r.panic /\ result = r.result

C9_Witness ==
  /\ ppc = "done"
  /\ lines = <<LineRowX, LineMoonA, LineRowX2>>
  /\ DOMAIN result = {LineMoonA}
  /\ DOMAIN result[LineMoonA] = {<<"x">>}
  /\ result[LineMoonA][<<"x">>].Quantity = <<"2">>

\* The number of blanks rawLine starts with.
LeadingBlanks(s) == SetMax({i \in 0..Len(s) : AllSpace(SubSeq(s, 1, i))})

\* The last five of the tokens f are a decimal numeral and four integers.
LastFiveNumeric(f) ==
  /\ Len(f) >= 5
  /\ IsDecimal(f[Len(f) - 4])
  /\ \A i \in (Len(f) - 3)..Len(f) : AllDigits(f[i])

LastFive(f) ==
  [Quantity |-> f[Len(f) - 4], OreTypeID |-> f[Len(f) - 3], SolarSystemID |-> f[Len(f) - 2],
   PlanetID |-> f[Len(f) - 1], MoonID |-> f[Len(f)]]

\* The loop body runs on lines[idx], which is no group header.
DataRowStep == ppc = "loop" /\ idx <= Len(lines) /\ idx' = idx + 1 /\ ~IsGroupHeader(lines[idx])

\* C10 as stated: a data-row line with fewer or more than six tokens adds
\* no record and changes no group's entries.
C10_OtherCountsDiscarded ==
  [][(DataRowStep /\ Len(Fields(lines[idx])) # 6) => result' = result]_vars

\* C10, amended: a line with fewer than six tokens is discarded, except five
\* numerals after two or more blanks, which are recorded under a one-blank
\* name; a line with more than six tokens is recorded under an active group
\* when its last five tokens are numerals (the name is the text before
\* them) and is discarded otherwise.
C10_Step ==
  DataRowStep =>
    LET f == Fields(lines[idx])
        n == Len(f)
        lead == LeadingBlanks(lines[idx])
        active == currentMoon # <<>> /\ ~Contains(lines[idx], MoonProductMarker)
    IN /\ (n < 6 /\ ~(n = 5 /\ lead >= 2)) => result' = result
       /\ (n = 5 /\ lead >= 2 /\ active /\ LastFiveNumeric(f)) =>
            \E name \in DOMAIN result'[currentMoon] :
              /\ Len(name) = 1
              /\ IsSpace(name[1])
              /\ result'[currentMoon][name] = LastFive(f)
       /\ (n > 6 /\ active /\ LastFiveNumeric(f)) =>
            \E name \in DOMAIN result'[currentMoon] :
              /\ Fields(name) = SubSeq(f, 1, n - 5)
              /\ result'[currentMoon][name] = LastFive(f)
       /\ (n > 6 /\ ~(active /\ LastFiveNumeric(f))) => result' = result

C10_TokenCount == [][C10_Step]_vars

C10_Witness ==
  /\ ppc = "loop"
  /\ lines = <<LineMoonA, LineRowX, LineFive>>
  /\ idx = 4
  /\ DOMAIN result = {LineMoonA}
  /\ DOMAIN result[LineMoonA] = {<<"x">>}

\* The loop body runs on lines[idx], a data row under the active group:
\* no column-header line, no group header, and a name followed by a decimal
\* numeral and four integers.
RecordedRowStep ==
  /\ DataRowStep
  /\ currentMoon # <<>>
  /\ ~Contains(lines[idx], MoonProductMarker)
  /\ Len(Fields(lines[idx])) >= 6
  /\ LastFiveNumeric(Fields(lines[idx]))

\* The tokens of the item name of the data row rawLine.
NameTokens(rawLine) == SubSeq(Fields(rawLine), 1, Len(Fields(rawLine)) - 5)

\* C11: a data row whose item name already has a record under the active
\* group replaces that record with its own fields: the group keeps exactly
\* one record for the name, every other entry of the table is unchanged and
\* the pass goes on without error.
C11_Step ==
  (RecordedRowStep /\ currentMoon \in DOMAIN result /\
     \E k \in DOMAIN result[currentMoon] : Fields(k) = NameTokens(lines[idx])) =>
    LET name == CHOOSE k \in DOMAIN result[currentMoon] : Fields(k) = NameTokens(lines[idx])
    IN /\ ppc' = "loop"
       /\ DOMAIN result' = DOMAIN result
       /\ \A g \in DOMAIN result : DOMAIN result'[g] = DOMAIN result[g]
       /\ Cardinality({k \in DOMAIN result'[currentMoon] :
                         Fields(k) = NameTokens(lines[idx])}) = 1
       /\ result'[currentMoon][name] = LastFive(Fields(lines[idx]))
       /\ \A g \in DOMAIN result : \A k \in DOMAIN result[g] :
            (g # currentMoon \/ k # name) => result'[g][k] = result[g][k]

C11_LastWriteWins == [][C11_Step]_vars

C11_Witness ==
  /\ ppc = "done"
  /\ lines = <<LineMoonA, LineRowX, LineRowX2>>
  /\ DOMAIN result = {LineMoonA}
  /\ DOMAIN result[LineMoonA] = {<<"x">>}
  /\ result[LineMoonA][<<"x">>] = LastFive(Fields(LineRowX2))
  /\ result[LineMoonA][<<"x">>] # LastFive(Fields(LineRowX))

\* text holds nothing but blanks and line breaks; the empty text is such a text.
OnlyWhitespace(text) == \A i \in DOMAIN text : IsSpace(text[i])

\* C12: on the empty input and on an input of blanks and line breaks only,
\* the table has no group key at any point of the pass and when ParseMoons
\* returns, and the pass does not fail.
C12_BlankInput ==
  (ppc # "idle" /\ OnlyWhitespace(input)) =>
    (ppc # "panic" /\ DOMAIN result = {} /\ currentMoon = <<>>)

C12_Witness ==
  /\ ppc = "done"
  /\ input = LineBlank \o <<"\n">> \o LineBlank
  /\ lines = <<LineBlank, LineBlank>>
  /\ DOMAIN result = {}

\* C13: a call of ParseMoons on the text of an earlier call returns the
\* table that call returned, whatever was parsed in between; the table a
\* call builds is a new one, not the one a caller holds; and a table a
\* caller holds changes only by the caller keeping another one.
C13_SameTable ==
  (ppc = "done" /\ held.addr # 0 /\ held.input = input) => result = held.table

C13_Fresh == (ppc = "loop" /\ held.addr # 0) => held.addr # raddr

C13_HeldStep ==
  (held.addr # 0 /\ (held'.table # held.table \/ held'.input # held.input)) =>
    (ppc = "done" /\ ppc' = "done" /\ held'.table = result /\ held'.input = input)

C13_Stateless == [](C13_SameTable /\ C13_Fresh) /\ [][C13_HeldStep]_vars

\* The table of "A - Moon 1", "x 1.5 1 2 3 4" is held, and the second or a
\* later call since then, on that text again, has returned.
C13_Witness ==
  /\ ppc = "done"
  /\ held.addr # 0
  /\ held.since = 2
  /\ held.addr # raddr
  /\ held.input = LineMoonA \o <<"\n">> \o LineRowX
  /\ input = held.input
  /\ result = held.table
  /\ DOMAIN result = {LineMoonA}

\* rawLine is neither blank, nor a column-header line, nor a group header,
\* nor a name followed by five numerals: a line the pass has no use for.
Malformed(rawLine) ==
  LET f == Fields(rawLine)
  IN /\ f # <<>>
     /\ ~Contains(rawLine, MoonProductMarker)
     /\ ~IsGroupHeader(rawLine)
     /\ ~(Len(f) >= 6 /\ LastFiveNumeric(f))
     /\ ~(Len(f) = 5 /\ LastFiveNumeric(f) /\ LeadingBlanks(rawLine) >= 2)

RECURSIVE WellFormedOnly(_)
WellFormedOnly(ls) ==
  IF ls = <<>> THEN <<>>
  ELSE IF Malformed(Head(ls)) THEN WellFormedOnly(Tail(ls))
  ELSE <<Head(ls)>> \o WellFormedOnly(Tail(ls))

\* C14: ParseMoons never fails: the pass runs over every line and returns
\* with a nil error; an active group key is always a key of the table; and
\* the returned table is the one returned for the input without its
\* malformed lines.
C14_Total ==
  /\ ppc # "panic"
  /\ (ppc \in {"loop", "done"} /\ currentMoon # <<>>) => currentMoon \in DOMAIN result
  /\ ppc = "done" =>
       /\ idx = Len(lines) + 1
       /\ perr = NoErr
       /\ LET r == ParseMoons(Join(WellFormedOnly(lines), "\n"))
          IN ~r.panic /\ result = r.result

C14_Witness ==
  /\ ppc = "done"
  /\ perr = NoErr
  /\ lines = <<LineMoonA, LineFive, LineRowX>>
  /\ Malformed(lines[2])
  /\ DOMAIN result = {LineMoonA}
  /\ DOMAIN result[LineMoonA] = {<<"x">>}

\* C15: a data row under the active group G puts exactly one record into
\* the table, under G and the row's name, whose five fields are the row's
\* five numerals in the order of the line; nothing else in the table changes.
C15_Step ==
  (RecordedRowStep /\ currentMoon \in DOMAIN result) =>
    /\ ppc' = "loop"
    /\ DOMAIN result' = DOMAIN result
    /\ \A g \in DOMAIN result : g # currentMoon => result'[g] = result[g]
    /\ \E name \in DOMAIN result'[currentMoon] :
         /\ Fields(name) = NameTokens(lines[idx])
         /\ result'[currentMoon][name] = LastFive(Fields(lines[idx]))
         /\ DOMAIN result'[currentMoon] = DOMAIN result[currentMoon] \cup {name}
         /\ \A k \in DOMAIN result[currentMoon] :
              k # name => result'[currentMoon][k] = result[currentMoon][k]

\* The table returned for the example: one group, one item, five values.
C15_Example ==
  (ppc = "done" /\ input = ExampleText) =>
    /\ DOMAIN result = {ExampleMoon}
    /\ DOMAIN result[ExampleMoon] = {ExampleName}
    /\ result[ExampleMoon][ExampleName] =
         [Quantity |-> ExampleQuantity, OreTypeID |-> ExampleOreTypeID,
          SolarSystemID |-> ExampleSolarSystemID, PlanetID |-> ExamplePlanetID,
          MoonID |-> ExampleMoonID]

C15_DataRow == []C15_Example /\ [][C15_Step]_vars

C15_Witness ==
  /\ ppc = "done"
  /\ input = ExampleText
  /\ lines = <<ExampleMoon, ExampleRow>>
  /\ result[ExampleMoon][ExampleName].MoonID = ExampleMoonID

\* The number of item records in table res.
RECURSIVE Records(_)
Records(res) ==
  IF DOMAIN res = {} THEN 0
  ELSE LET g == CHOOSE k \in DOMAIN res : TRUE
       IN Cardinality(DOMAIN res[g]) + Records([k \in DOMAIN res \ {g} |-> res[k]])

\* The loop body runs on lines[idx], a group header.
HeaderStep == ppc = "loop" /\ idx <= Len(lines) /\ idx' = idx + 1 /\ IsGroupHeader(lines[idx])

\* The key of the group header rawLine, for a name that begins with a
\* character that is no blank: the line without its line end and the blanks
\* around it.
HeaderKey(rawLine) == TrimSpace(TrimRight(rawLine, "\r"))

\* C18: a group header makes its key the active one and adds no item
\* record; a key that is new gets an empty inner mapping and nothing else
\* changes; a key the table has already leaves the table as it is.  A
\* header without rows of its own is a group with an empty inner mapping in
\* the returned table.
C18_Step ==
  HeaderStep =>
    LET key == HeaderKey(lines[idx])
    IN /\ currentMoon' = key
       /\ ppc' = "loop"
       /\ Records(result') = Records(result)
       /\ key \in DOMAIN result => result' = result
       /\ key \notin DOMAIN result =>
            /\ DOMAIN result' = DOMAIN result \cup {key}
            /\ result'[key] = EmptyMap
            /\ \A g \in DOMAIN result : result'[g] = result[g]

C18_Returned ==
  ppc = "done" =>
    \A i \in DOMAIN lines :
      IsGroupHeader(lines[i]) => HeaderKey(lines[i]) \in DOMAIN result

C18_Header == []C18_Returned /\ [][C18_Step]_vars

\* The header of A is repeated after a row of A: A keeps its record.
C18_Witness ==
  /\ ppc = "done"
  /\ lines = <<LineMoonA, LineRowX, LineMoonA>>
  /\ currentMoon = LineMoonA
  /\ DOMAIN result = {LineMoonA}
  /\ DOMAIN result[LineMoonA] = {<<"x">>}

\* The key of the last group header among the first n lines of ls; the
\* empty string when there is none.
LastHeaderKey(ls, n) ==
  LET hs == {i \in 1..n : IsGroupHeader(ls[i])}
  IN IF hs = {} THEN <<>> ELSE HeaderKey(ls[SetMax(hs)])

\* C19: the active group is the key of the most recent group header among
\* the lines processed, whatever blank or unmatched lines came after it, and
\* a step that is not on a header changes the table in the records of that
\* group only.
C19_Active ==
  ppc \in {"loop", "done"} => currentMoon = LastHeaderKey(lines, idx - 1)

C19_Step ==
  (DataRowStep /\ result' # result) =>
    LET key == LastHeaderKey(lines, idx - 1)
    IN /\ key \in DOMAIN result
       /\ DOMAIN result' = DOMAIN result
       /\ \A g \in DOMAIN result : g # key => result'[g] = result[g]
       /\ Records(result') >= Records(result)

C19_UnderLastHeader == []C19_Active /\ [][C19_Step]_vars

\* Two headers and a row: the record is under the second.
C19_Witness ==
  /\ ppc = "done"
  /\ lines = <<LineMoonA, LineMoonB, LineRowX>>
  /\ DOMAIN result = {LineMoonA, HeaderKey(LineMoonB)}
  /\ result[LineMoonA] = EmptyMap
  /\ DOMAIN result[HeaderKey(LineMoonB)] = {<<"x">>}

\* The loop body runs on lines[idx], which contains "Moon Product".
MarkerStep ==
  /\ ppc = "loop"
  /\ idx <= Len(lines)
  /\ idx' = idx + 1
  /\ Contains(lines[idx], MoonProductMarker)

\* C20: a line that contains "Moon Product" changes neither the table nor
\* the active group, also when the header pattern or the data-row pattern
\* matches it.
C20_Step == MarkerStep => (result' = result /\ currentMoon' = currentMoon /\ ppc' = "loop")

C20_MarkerSkipped == [][C20_Step]_vars

\* After the header of A: a line with the marker that the header pattern
\* matches, and one that the data-row pattern matches.
C20_Witness ==
  /\ ppc = "done"
  /\ lines = <<LineMoonA, LineMarkerMoon, LineMarkerRow>>
  /\ Len(moonLineRe(lines[2])) = 2
  /\ Len(productLineRe(lines[3])) = 7
  /\ currentMoon = LineMoonA
  /\ DOMAIN result = {LineMoonA}
  /\ result[LineMoonA] = EmptyMap

(* ================== order of the clipboard calls ====================== *)

\* The calls of a successful extraction after k failed OpenClipboard
\* attempts, up to the return of readClipboardText.
RECURSIVE Opens(_)
Opens(k) == IF k = 0 THEN <<>> ELSE <<"OpenClipboard">> \o Opens(k - 1)

SuccessfulRead(k) ==
  <<"IsClipboardFormatAvailable">> \o Opens(k + 1) \o
  <<"GetClipboardData", "GlobalLock", "decode", "GlobalUnlock", "CloseClipboard">>

\* C17: whenever the handler is about to run or has run, and whenever the
\* loop waits for a message, the clipboard is closed and the memory is
\* unlocked; the calls of a successful extraction are, in this order,
\* OpenClipboard, GetClipboardData, GlobalLock, the decode, GlobalUnlock,
\* CloseClipboard and then the handler.
C17_NotHeld ==
  /\ pc \in {"handler", "getmsg", "none"} => (~clipOpen /\ ~memLocked)
  /\ pc = "handler" => x.trace = SuccessfulRead(x.attempt)
  /\ (Finished /\ x.err = NoErr /\ x.ptr # 0) =>
       x.trace = SuccessfulRead(x.attempt) \o <<"handler">>

C17_Witness ==
  /\ pc = "getmsg"
  /\ x.attempt = 1
  /\ x.trace = <<"IsClipboardFormatAvailable", "OpenClipboard", "OpenClipboard",
                 "GetClipboardData", "GlobalLock", "decode", "GlobalUnlock",
                 "CloseClipboard", "handler">>
  /\ ~clipOpen
  /\ ~memLocked

(* ====================== properties of the handler ===================== *)

\* C16: when the handler has returned from a text that passed the detection
\* gate, it has sent one request if the endpoint is set and none if it is
\* not, whatever the token; a request sent carries an Authorization header
\* exactly when the token is set; no call sends twice, and the handler
\* returns after a failed request as after any other.
C16_EndpointAlone ==
  /\ hpc # "crashed"
  /\ sent <= 1
  /\ (hpc = "idle" /\ hcalls > 0 /\ passed) =>
       /\ (sent = 1) <=> (opts.APIEndpoint # "")
       /\ (sent = 1) => ((req.auth # <<>>) <=> (opts.APIToken # ""))

====
